---- MODULE Spec2Model ----
(***************************************************************************)
(* A model of the anonymous board of src/src/main.rs: the posts table, the *)
(* upload directory, the clock, and the four request handlers (submit,     *)
(* submit_reply, index, reply).  Every SQL statement is one atomic step    *)
(* (sqlite autocommit); a handler is a sequence of such steps, and several *)
(* handlers may be in flight at once.                                      *)
(***************************************************************************)
EXTENDS Integers, Sequences, FiniteSets, TLC

\* ------------------------------------------------------------------ bounds
MaxPosts == 3
MaxClock == 1
NumCalls == 2
MaxFeedPosts == 12
MaxFeedReplies == 2
MaxPage == 2
MaxSerialPosts == 4
MaxUploadPosts == 3
MaxBumpPosts == 4

\* ------------------------------------------------------- program constants
posts_per_page == 10
upload_dir == "static/uploads"
MaxFileLen == 20 * 1024 * 1024
allowed_extensions == {"jpg", "png", "bmp", "gif", "webp", "webm", "mp4", "mp3"}

\* ------------------------------------------------------------ option type
\* Option<T> / a nullable column: NULL is the empty tuple, Some(x) is <<x>>.
NULL == <<>>
Some(x) == <<x>>
IsSome(o) == o # NULL
Unwrap(o) == o[1]

\* ----------------------------------------------------------------- inputs
\* Form field `content`: any string, a blank one included.
Contents == {" ", "a"}
\* rand::distributions::Alphanumeric: a-z, A-Z and 0-9, one string per char.
Alphanumeric ==
    {"a", "b", "c", "d", "e", "f", "g", "h", "i", "j", "k", "l", "m",
     "n", "o", "p", "q", "r", "s", "t", "u", "v", "w", "x", "y", "z",
     "A", "B", "C", "D", "E", "F", "G", "H", "I", "J", "K", "L", "M",
     "N", "O", "P", "Q", "R", "S", "T", "U", "V", "W", "X", "Y", "Z",
     "0", "1", "2", "3", "4", "5", "6", "7", "8", "9"}
\* What thread_rng().sample_iter(&Alphanumeric) yields, as far as it is read.
Samples == {<<"a", "B", "3", "x", "9", "q">>, <<"0", "0", "Z", "0", "0", "7">>}

\* A variant: one character too few is taken.
generate_display_id_Take4(sample) == SubSeq(sample, 1, 4)

\* fn generate_display_id: .take(5).map(char::from).collect(), a string as the
\* sequence of its characters.
generate_display_id(sample) == SubSeq(sample, 1, 5)

\* The display id the larger specifications give every root.
DisplayIds == {generate_display_id(<<"a", "B", "3", "x", "9", "q">>)}
\* The display ids of the specification of submit alone.
SampledDisplayIds == {generate_display_id(sample) : sample \in Samples}
\* Path parameter <parent_id>: ids of posts that exist, or do not (yet).
ParentIds == 1..MaxPosts
\* An upload: what file.name() gives (NULL, or the name as its '.'-separated
\* pieces) and file.len().
NoFile == NULL
Upload(name, len) == Some([name |-> name, len |-> len])
Uploads ==
    { NoFile,
      Upload(Some(<<"a", "png">>), 1024),
      Upload(Some(<<"a", "exe">>), 1024) }
\* The uploads of the specification of submit alone: no name, an empty name,
\* an upper-case extension, "jpeg", a file of exactly 20 MiB and one of 21 MiB.
UploadInputs ==
    { NoFile,
      Upload(NULL, 1024),
      Upload(Some(<<"">>), 1024),
      Upload(Some(<<"a", "png">>), 1024),
      Upload(Some(<<"a", "PNG">>), 1024),
      Upload(Some(<<"a", "jpeg">>), 1024),
      Upload(Some(<<"a", "exe">>), 1024),
      Upload(Some(<<"b", "mp3">>), 20 * 1024 * 1024),
      Upload(Some(<<"a", "png">>), 21 * 1024 * 1024) }

Calls == 1..NumCalls

VARIABLES
    posts,   \* the posts table, in rowid order: posts[i].id = i
    files,   \* paths present under the upload directory
    now,     \* the system clock, in seconds
    calls,   \* per worker: the handler it runs and that handler's locals
    resp     \* the last page index or reply rendered

vars == <<posts, files, now, calls, resp>>

\* ------------------------------------------------------------ the handlers
IdleCall ==
    [pc |-> "idle", content |-> "", parent_id |-> 0, timestamp |-> 0,
     reply_id |-> 0, display_id |-> NULL, upload |-> NoFile,
     file_path |-> NULL, ins |-> 0]

NoResp == [op |-> "none", arg |-> 0, status |-> "ok", offset |-> 0, rows |-> <<>>]

\* No rendered page is waiting to be sent.  A page is sent before the model
\* takes another step: the views only read the store, so no interleaving of
\* the handlers is lost by it.
Quiet == resp = NoResp

\* fn current_timestamp
current_timestamp == now

\* The rowid sqlite gives an INTEGER PRIMARY KEY row: the largest one plus 1.
NextRowId(ps) == Len(ps) + 1

Max(S, default) == IF S = {} THEN default ELSE CHOOSE m \in S : \A x \in S : x <= m

Replies(ps, parent) == {i \in DOMAIN ps : ps[i].parent_id = Some(parent)}

\* A variant: the WHERE clause is left out, the maximum is taken over all posts.
NextReplyId_NoWhere(ps, parent) ==
    Max({Unwrap(ps[i].reply_id) : i \in {j \in DOMAIN ps : ps[j].reply_id # NULL}}, 0) + 1

\* SELECT COALESCE(MAX(reply_id), 0) + 1 FROM posts WHERE parent_id = ?1
NextReplyId(ps, parent) ==
    Max({Unwrap(ps[i].reply_id) : i \in Replies(ps, parent)}, 0) + 1

\* A variant: the reply_id is worked out by the INSERT itself.
InsertReply_Atomic(ps, content, parent, rid, ts) ==
    Append(ps, [id |-> NextRowId(ps), content |-> content,
                parent_id |-> Some(parent),
                reply_id |-> Some(NextReplyId(ps, parent)),
                display_id |-> NULL, timestamp |-> ts, file_path |-> NULL])

\* A variant: the reply_id column is left out of the INSERT.
InsertReply_NoReplyId(ps, content, parent, rid, ts) ==
    Append(ps, [id |-> NextRowId(ps), content |-> content,
                parent_id |-> Some(parent), reply_id |-> NULL,
                display_id |-> NULL, timestamp |-> ts, file_path |-> NULL])

\* INSERT INTO posts (...) VALUES (?1, ?2, ?3, NULL, ?4, NULL)
InsertReply(ps, content, parent, rid, ts) ==
    Append(ps, [id |-> NextRowId(ps), content |-> content,
                parent_id |-> Some(parent), reply_id |-> Some(rid),
                display_id |-> NULL, timestamp |-> ts, file_path |-> NULL])

\* INSERT INTO posts (...) VALUES (?1, NULL, NULL, ?2, ?3, ?4)
InsertRoot(ps, content, did, ts, path) ==
    Append(ps, [id |-> NextRowId(ps), content |-> content,
                parent_id |-> NULL, reply_id |-> NULL,
                display_id |-> Some(did), timestamp |-> ts, file_path |-> path])

\* A variant: the bump is left out.
UpdateTimestamp_None(ps, ts, id) == ps

\* UPDATE posts SET timestamp = ?1 WHERE id = ?2
UpdateTimestamp(ps, ts, id) ==
    [i \in DOMAIN ps |->
        IF ps[i].id = id THEN [ps[i] EXCEPT !.timestamp = ts] ELSE ps[i]]

\* Calls in flight that have still to insert their row.
Inserting == {c \in Calls : calls[c].pc \in {"select", "insert", "persist", "insert_root"}}
Room(bound) == Len(posts) + Cardinality(Inserting) < bound

\* submit_reply, lines 107-111: the form is read and the clock is read.
ReplyStart(c, parent, content, bound) ==
    /\ Quiet
    /\ calls[c].pc = "idle"
    /\ Room(bound)
    /\ calls' = [calls EXCEPT ![c] =
                    [IdleCall EXCEPT !.pc = "select", !.content = content,
                                     !.parent_id = parent,
                                     !.timestamp = current_timestamp]]
    /\ UNCHANGED <<posts, files, now, resp>>

\* submit_reply, lines 112-116: the next reply_id is read.
ReplySelect(c) ==
    /\ Quiet
    /\ calls[c].pc = "select"
    /\ calls' = [calls EXCEPT ![c].pc = "insert",
                              ![c].reply_id = NextReplyId(posts, calls[c].parent_id)]
    /\ UNCHANGED <<posts, files, now, resp>>

\* submit_reply, lines 118-121: the reply is inserted.
ReplyInsert(c) ==
    /\ Quiet
    /\ calls[c].pc = "insert"
    /\ posts' = InsertReply(posts, calls[c].content, calls[c].parent_id,
                            calls[c].reply_id, calls[c].timestamp)
    /\ calls' = [calls EXCEPT ![c].pc = "update", ![c].ins = NextRowId(posts)]
    /\ UNCHANGED <<files, now, resp>>

\* submit_reply, lines 123-129: the parent is bumped and the handler returns.
ReplyUpdate(c) ==
    /\ Quiet
    /\ calls[c].pc = "update"
    /\ posts' = UpdateTimestamp(posts, calls[c].timestamp, calls[c].parent_id)
    /\ calls' = [calls EXCEPT ![c] = IdleCall]
    /\ UNCHANGED <<files, now, resp>>

\* A variant: a handler that stops after its INSERT takes the row back, as it
\* would were the INSERT and the UPDATE one transaction.
Fail_Rollback(c) ==
    /\ Quiet
    /\ calls[c].pc \in {"select", "insert", "update", "insert_root"}
    /\ calls' = [calls EXCEPT ![c] = IdleCall]
    /\ posts' = IF calls[c].pc = "update"
                THEN SelectSeq(posts, LAMBDA p : p.id # calls[c].ins)
                ELSE posts
    /\ UNCHANGED <<files, now, resp>>

\* A statement of the handler fails (the store is busy, the disk is full) and
\* its unwrap() panics: the handler stops where it is.
Fail(c) ==
    /\ Quiet
    /\ calls[c].pc \in {"select", "insert", "update", "insert_root"}
    /\ calls' = [calls EXCEPT ![c] = IdleCall]
    /\ UNCHANGED <<posts, files, now, resp>>

\* str::to_lowercase, on the pieces the inputs use.
ToLowercase(s) ==
    CASE s = "PNG" -> "png"
      [] s = "JPG" -> "jpg"
      [] s = "EXE" -> "exe"
      [] OTHER -> s

\* file_name.split('.').last().unwrap_or("").to_lowercase()
Extension(name) == ToLowercase(name[Len(name)])

\* file_name.is_empty(): the only piece of the name is the empty string.
IsEmptyName(name) == name = <<"">>

\* Lines 52-61: whether submit goes on to store the upload.
Accepted(upload) ==
    /\ IsSome(upload)
    /\ IsSome(Unwrap(upload).name)
    /\ ~IsEmptyName(Unwrap(Unwrap(upload).name))
    /\ Extension(Unwrap(Unwrap(upload).name)) \in allowed_extensions
    /\ Unwrap(upload).len <= MaxFileLen

\* format!("{}/{}", upload_dir, file_name), as '.'-separated pieces.
UploadPath(name) == <<upload_dir \o "/" \o name[1]>> \o Tail(name)

\* submit, lines 48-61: the form, a display id and the clock are read, and the
\* upload is accepted or dropped.
SubmitStart(c, content, did, upload, bound) ==
    /\ Quiet
    /\ calls[c].pc = "idle"
    /\ Room(bound)
    /\ calls' = [calls EXCEPT ![c] =
                    [IdleCall EXCEPT
                        !.pc = IF Accepted(upload) THEN "persist" ELSE "insert_root",
                        !.content = content,
                        !.display_id = Some(did),
                        !.timestamp = current_timestamp,
                        !.upload = IF Accepted(upload) THEN upload ELSE NoFile]]
    /\ UNCHANGED <<posts, files, now, resp>>

\* A variant: the path is kept although persist_to failed.
SubmitPersist_KeepsPath(c, dir_ok, persist_ok) ==
    /\ Quiet
    /\ calls[c].pc = "persist"
    /\ LET path == UploadPath(Unwrap(Unwrap(calls[c].upload).name))
       IN  IF ~dir_ok
           THEN /\ calls' = [calls EXCEPT ![c] = IdleCall]
                /\ files' = files
           ELSE /\ files' = IF persist_ok THEN files \cup {path} ELSE files
                /\ calls' = [calls EXCEPT ![c].pc = "insert_root",
                                          ![c].upload = NoFile,
                                          ![c].file_path = Some(path)]
    /\ UNCHANGED <<posts, now, resp>>

\* submit, lines 62-79: the upload directory is made and the file is moved
\* into it.  create_dir_all failing ends the handler with no post; persist_to
\* failing drops the attachment.
SubmitPersist(c, dir_ok, persist_ok) ==
    /\ Quiet
    /\ calls[c].pc = "persist"
    /\ LET path == UploadPath(Unwrap(Unwrap(calls[c].upload).name))
       IN  IF ~dir_ok
           THEN /\ calls' = [calls EXCEPT ![c] = IdleCall]
                /\ files' = files
           ELSE IF persist_ok
           THEN /\ files' = files \cup {path}
                /\ calls' = [calls EXCEPT ![c].pc = "insert_root",
                                          ![c].upload = NoFile,
                                          ![c].file_path = Some(path)]
           ELSE /\ files' = files
                /\ calls' = [calls EXCEPT ![c].pc = "insert_root",
                                          ![c].upload = NoFile,
                                          ![c].file_path = NULL]
    /\ UNCHANGED <<posts, now, resp>>

\* submit, lines 97-103: the root is inserted and the handler returns.
SubmitInsert(c) ==
    /\ Quiet
    /\ calls[c].pc = "insert_root"
    /\ posts' = InsertRoot(posts, calls[c].content, Unwrap(calls[c].display_id),
                           calls[c].timestamp, calls[c].file_path)
    /\ calls' = [calls EXCEPT ![c] = IdleCall]
    /\ UNCHANGED <<files, now, resp>>

\* ---------------------------------------------------------------- the views
\* ORDER BY <key> DESC over the rows S.  sqlite leaves the order of rows with
\* equal keys open: by rowid ascending (a scan and a sort) or descending (the
\* index read backwards), as the plan has it.
TieOrders == {"rowid_asc", "rowid_desc"}
Before(i, j, key, tie) ==
    \/ key[i] > key[j]
    \/ key[i] = key[j] /\ (IF tie = "rowid_asc" THEN i <= j ELSE i >= j)

RECURSIVE OrderByDesc(_, _, _)
OrderByDesc(S, key, tie) ==
    IF S = {} THEN <<>>
    ELSE LET first == CHOOSE i \in S : \A j \in S : Before(i, j, key, tie)
         IN  <<first>> \o OrderByDesc(S \ {first}, key, tie)

\* LIMIT ?1 OFFSET ?2: a negative OFFSET counts as 0.
LimitOffset(rows, limit, offset) ==
    LET skip == IF offset < 0 THEN 0 ELSE offset
        last == IF skip + limit < Len(rows) THEN skip + limit ELSE Len(rows)
    IN  SubSeq(rows, skip + 1, last)

\* ... WHERE parent_id IS NULL
Roots(ps) == {i \in DOMAIN ps : ps[i].parent_id = NULL}

\* ... WHERE parent_id IS NULL ORDER BY timestamp DESC
RootsByTimestamp(ps, tie) ==
    OrderByDesc(Roots(ps), [i \in Roots(ps) |-> ps[i].timestamp], tie)

\* A variant: the count is taken over the replies of every post.
CountReplies_All(ps, id) == Cardinality({i \in DOMAIN ps : ps[i].parent_id # NULL})

\* SELECT COUNT(*) FROM posts WHERE parent_id = ?1
CountReplies(ps, id) == Cardinality(Replies(ps, id))

\* A variant: the offset of page p is taken to be p * posts_per_page.
OffsetAsI64_OffByOne(page) == page * posts_per_page

\* index, line 136: (page - 1) * posts_per_page in usize, then `as i64`.  With
\* overflow checks (a debug build) 0 - 1 panics; without them it wraps to
\* 2^64 - 1, the product wraps to 2^64 - 10, and the cast gives -10: for the
\* pages modelled the wrapped, cast value is the plain integer (page - 1) * 10.
OffsetPanics(page, overflow_checks) == overflow_checks /\ page < 1
OffsetAsI64(page) == (page - 1) * posts_per_page

\* index, lines 139-185: one row per root of the page, with its reply count.
IndexRows(ps, page, tie) ==
    LET ids == LimitOffset(RootsByTimestamp(ps, tie), posts_per_page, OffsetAsI64(page))
    IN  [k \in DOMAIN ids |->
            [id |-> ids[k], content |-> ps[ids[k]].content,
             display_id |-> ps[ids[k]].display_id,
             file_path |-> ps[ids[k]].file_path,
             reply_count |-> CountReplies(ps, ids[k])]]

\* index, lines 133-216.  `query` is the page parameter: NULL when it is absent.
Index(query, overflow_checks, tie) ==
    /\ Quiet
    /\ LET page == IF IsSome(query) THEN Unwrap(query) ELSE 1
       IN  resp' = IF OffsetPanics(page, overflow_checks)
                   THEN [op |-> "index", arg |-> page, status |-> "panic",
                         offset |-> 0, rows |-> <<>>]
                   ELSE [op |-> "index", arg |-> page, status |-> "ok",
                         offset |-> OffsetAsI64(page),
                         rows |-> IndexRows(posts, page, tie)]
    /\ UNCHANGED <<posts, files, now, calls>>

\* reply, lines 235-257: the replies of the post, ORDER BY reply_id DESC.
ReplyRows(ps, post_id, tie) ==
    LET R   == Replies(ps, post_id)
        ids == OrderByDesc(R, [i \in R |-> Unwrap(ps[i].reply_id)], tie)
    IN  [k \in DOMAIN ids |->
            [id |-> ids[k], content |-> ps[ids[k]].content,
             reply_id |-> ps[ids[k]].reply_id]]

\* reply, lines 222-233 and 283: query_row(...).unwrap() panics when no post has
\* the id, and display_id.unwrap() panics when the post is a reply.
ReplyPanics(ps, post_id) ==
    \/ post_id \notin DOMAIN ps
    \/ ps[post_id].display_id = NULL

\* reply, lines 219-300.
ReplyView(post_id, tie) ==
    /\ Quiet
    /\ resp' = IF ReplyPanics(posts, post_id)
               THEN [op |-> "reply", arg |-> post_id, status |-> "panic",
                     offset |-> 0, rows |-> <<>>]
               ELSE [op |-> "reply", arg |-> post_id, status |-> "ok",
                     offset |-> 0, rows |-> ReplyRows(posts, post_id, tie)]
    /\ UNCHANGED <<posts, files, now, calls>>

\* The page rendered by index or reply is sent to the client.
Deliver ==
    /\ resp # NoResp
    /\ resp' = NoResp
    /\ UNCHANGED <<posts, files, now, calls>>

\* The clock advances.
Tick ==
    /\ Quiet
    /\ now < MaxClock
    /\ now' = now + 1
    /\ UNCHANGED <<posts, files, calls, resp>>

Init ==
    /\ posts = <<>>
    /\ files = {}
    /\ now = 0
    /\ calls = [c \in Calls |-> IdleCall]
    /\ resp = NoResp

Pages == {NULL} \cup {Some(n) : n \in 0..MaxPage}

\* Requests are handled concurrently: any worker takes any step.
Next ==
    \/ \E c \in Calls, s \in Contents, d \in DisplayIds, u \in Uploads :
            SubmitStart(c, s, d, u, MaxPosts)
    \/ \E c \in Calls, d \in BOOLEAN, ok \in BOOLEAN : SubmitPersist(c, d, ok)
    \/ \E c \in Calls : SubmitInsert(c)
    \/ \E c \in Calls, p \in ParentIds, s \in Contents : ReplyStart(c, p, s, MaxPosts)
    \/ \E c \in Calls : ReplySelect(c)
    \/ \E c \in Calls : ReplyInsert(c)
    \/ \E c \in Calls : ReplyUpdate(c)
    \/ \E c \in Calls : Fail(c)
    \/ \E q \in Pages, oc \in BOOLEAN, t \in TieOrders : Index(q, oc, t)
    \/ \E id \in 1..MaxPosts, t \in TieOrders : ReplyView(id, t)
    \/ Deliver
    \/ Tick

Spec == Init /\ [][Next]_vars

\* Requests are handled one at a time: a handler starts only when none runs.
AllIdle == \A c \in Calls : calls[c].pc = "idle"

SerialNext ==
    \/ \E s \in Contents, d \in DisplayIds, u \in Uploads :
            AllIdle /\ SubmitStart(1, s, d, u, MaxSerialPosts)
    \/ \E d \in BOOLEAN, ok \in BOOLEAN : SubmitPersist(1, d, ok)
    \/ SubmitInsert(1)
    \/ \E p \in 1..MaxSerialPosts, s \in Contents :
            AllIdle /\ ReplyStart(1, p, s, MaxSerialPosts)
    \/ ReplySelect(1)
    \/ ReplyInsert(1)
    \/ ReplyUpdate(1)
    \/ Fail(1)
    \/ \E q \in Pages, oc \in BOOLEAN, t \in TieOrders : AllIdle /\ Index(q, oc, t)
    \/ \E id \in 1..MaxSerialPosts, t \in TieOrders : AllIdle /\ ReplyView(id, t)
    \/ Deliver
    \/ Tick

SerialSpec == Init /\ [][SerialNext]_vars

\* The feed of a board with more roots than a page holds: requests one at a
\* time, text-only posts, replies to the first two roots.
FeedReplies == Cardinality({i \in DOMAIN posts : posts[i].parent_id # NULL})
             + Cardinality({c \in Calls : calls[c].pc \in {"select", "insert"}})

FeedNext ==
    \/ \E d \in DisplayIds : AllIdle /\ SubmitStart(1, "a", d, NoFile, MaxFeedPosts)
    \/ SubmitInsert(1)
    \/ \E p \in 1..2 :
            /\ AllIdle
            /\ FeedReplies < MaxFeedReplies
            /\ ReplyStart(1, p, "a", MaxFeedPosts)
    \/ ReplySelect(1)
    \/ ReplyInsert(1)
    \/ ReplyUpdate(1)
    \/ \E q \in Pages, oc \in BOOLEAN, t \in TieOrders : AllIdle /\ Index(q, oc, t)
    \/ Deliver
    \/ Tick

FeedSpec == Init /\ [][FeedNext]_vars

\* submit alone, with every kind of upload: two workers, any interleaving.
UploadNext ==
    \/ \E c \in Calls, d \in SampledDisplayIds, u \in UploadInputs :
            SubmitStart(c, "a", d, u, MaxUploadPosts)
    \/ \E c \in Calls, d \in BOOLEAN, ok \in BOOLEAN : SubmitPersist(c, d, ok)
    \/ \E c \in Calls : SubmitInsert(c)
    \/ \E c \in Calls : Fail(c)
    \/ Tick

UploadSpec == Init /\ [][UploadNext]_vars

\* submit_reply calls on roots that exist, two at a time and interleaved in
\* any way; no statement fails, and a root is created while nothing runs.
BumpNext ==
    \/ \E d \in DisplayIds : AllIdle /\ SubmitStart(1, "a", d, NoFile, MaxBumpPosts)
    \/ SubmitInsert(1)
    \/ \E c \in Calls, p \in Roots(posts) : ReplyStart(c, p, "a", MaxBumpPosts)
    \/ \E c \in Calls : ReplySelect(c)
    \/ \E c \in Calls : ReplyInsert(c)
    \/ \E c \in Calls : ReplyUpdate(c)
    \/ Tick

BumpSpec == Init /\ [][BumpNext]_vars

\* ------------------------------------------------------------------ claims
IsRoot(p) == p.parent_id = NULL /\ p.reply_id = NULL /\ p.display_id # NULL
IsReply(p) == p.parent_id # NULL /\ p.reply_id # NULL /\ p.display_id = NULL

\* C1: when submit_reply calls run one after the other, the replies of a root
\* carry the reply_ids 1, 2, ..., N in the order they were created: the k-th
\* post with that parent_id has reply_id k (so no gap and no duplicate).
C1_SerialReplyIdsDense ==
    \A r \in Roots(posts) : \A i \in Replies(posts, r) :
        Unwrap(posts[i].reply_id) = Cardinality({j \in Replies(posts, r) : j <= i})

\* C1's case: a root that has received three replies.
C1_Witness ==
    /\ AllIdle
    /\ \E r \in Roots(posts) : Cardinality(Replies(posts, r)) = 3

\* Two handlers of submit_reply that have both inserted, for the same parent and
\* from the same reading of the reply_id.
SameRead(c, d) ==
    /\ c # d
    /\ calls[c].pc = "update" /\ calls[d].pc = "update"
    /\ calls[c].parent_id = calls[d].parent_id
    /\ calls[c].reply_id = calls[d].reply_id

\* C2: two concurrent submit_reply calls on one parent can read the same maximum,
\* and when they do, the two posts they insert are distinct posts with the same
\* parent_id and the same reply_id.
C2_SameReadGivesDuplicate ==
    \A c, d \in Calls : SameRead(c, d) =>
        /\ calls[c].ins # calls[d].ins
        /\ posts[calls[c].ins].parent_id = posts[calls[d].ins].parent_id
        /\ posts[calls[c].ins].reply_id = posts[calls[d].ins].reply_id

\* C2's case: a root with two replies of the same reply_id.
C2_Witness ==
    \E r \in Roots(posts) : \E i, j \in Replies(posts, r) :
        /\ i # j
        /\ posts[i].reply_id = posts[j].reply_id
        /\ \E c, d \in Calls : SameRead(c, d) /\ calls[c].ins = i /\ calls[d].ins = j

\* C3: the step that ends a submit_reply call on a root leaves the root's
\* timestamp equal to the timestamp stored on the reply that call inserted,
\* whatever other calls are in flight.  (The UPDATE of a call whose parent_id
\* is the id of that reply rewrites the reply's timestamp in between.)
C3_BumpEqualsReplyTimestamp ==
    [][\A c \in Calls :
          (ReplyUpdate(c) /\ calls[c].parent_id \in Roots(posts)) =>
              posts'[calls[c].parent_id].timestamp = posts'[calls[c].ins].timestamp]_vars

\* Position of root r in the rows of a page, 0 when it is not on the page.
RowOf(rows, r) ==
    IF \E k \in DOMAIN rows : rows[k].id = r
    THEN CHOOSE k \in DOMAIN rows : rows[k].id = r
    ELSE 0

\* After the bump of root r at time t: on page 1, r stands before every root
\* whose timestamp is below t.
BumpedFirst(ps, r, t) ==
    \A tie \in TieOrders :
        LET rows == IndexRows(ps, 1, tie)
        IN  \A k \in DOMAIN rows :
                ps[rows[k].id].timestamp < t =>
                    RowOf(rows, r) # 0 /\ RowOf(rows, r) < k

\* The rows index rendered are in non-increasing order of timestamp.
RowsDescending ==
    (resp.op = "index" /\ resp.status = "ok") =>
        \A k \in 1..(Len(resp.rows) - 1) :
            posts[resp.rows[k].id].timestamp >= posts[resp.rows[k + 1].id].timestamp

\* C4: when a submit_reply on root R has completed with timestamp t, page 1 of
\* index lists R before every root whose timestamp is less than t; and every
\* page index renders lists its roots in non-increasing order of timestamp.
C4_BumpedRootSortsFirst ==
    /\ [][\A c \in Calls :
            (ReplyUpdate(c) /\ calls[c].parent_id \in Roots(posts)) =>
                BumpedFirst(posts', calls[c].parent_id, calls[c].timestamp)]_vars
    /\ []RowsDescending

\* C4's case: a board of more than a page of roots, the oldest of which was
\* bumped by a reply and now heads page 1, before roots of a lower timestamp.
C4_Witness ==
    /\ Cardinality(Roots(posts)) > posts_per_page
    /\ resp.op = "index" /\ resp.status = "ok" /\ resp.arg = 1
    /\ Len(resp.rows) = posts_per_page
    /\ resp.rows[1].id = 1
    /\ resp.rows[1].reply_count >= 1
    /\ posts[resp.rows[1].id].timestamp > posts[resp.rows[2].id].timestamp

\* C5: submit_reply with a parent_id that is not the id of an existing root
\* inserts nothing, so every reply in the store has a parent_id that is the id
\* of an existing root.
C5_RepliesHaveRootParent ==
    \A i \in DOMAIN posts :
        posts[i].parent_id # NULL => Unwrap(posts[i].parent_id) \in Roots(posts)

\* str::trim, on the contents the inputs use.
Trim(s) == IF s = " " THEN "" ELSE s

\* C6: submit and submit_reply insert no post whose content is empty after
\* trimming, so every post in the store has non-empty content.
C6_ContentNonEmpty ==
    \A i \in DOMAIN posts : Trim(posts[i].content) # ""

\* C7: every post is a root (no parent_id, no reply_id, a display_id) or a reply
\* (a parent_id, a reply_id, no display_id), and never both or neither.
C7_RootOrReply ==
    \A i \in DOMAIN posts :
        /\ IsRoot(posts[i]) \/ IsReply(posts[i])
        /\ ~(IsRoot(posts[i]) /\ IsReply(posts[i]))

\* C7's case: the store holds a root and a reply to it, the reply inserted by a
\* call that is still in flight.
C7_Witness ==
    \E r \in Roots(posts) : \E j \in Replies(posts, r) :
        /\ IsRoot(posts[r]) /\ IsReply(posts[j])
        /\ \E c \in Calls : calls[c].pc = "update" /\ calls[c].ins = j

C9_PageZeroIsPageOne ==
    (resp.op = "index" /\ resp.arg = 0) =>
        /\ resp.status = "ok"
        /\ resp.offset = 0
        /\ \E tie \in TieOrders : resp.rows = IndexRows(posts, 1, tie)

\* C10: the reply view of a root returns exactly the posts whose parent_id is
\* that root, each with a reply_id strictly smaller than the one before it.
C10_RepliesStrictlyDescending ==
    (resp.op = "reply" /\ resp.status = "ok") =>
        /\ {resp.rows[k].id : k \in DOMAIN resp.rows} = Replies(posts, resp.arg)
        /\ Len(resp.rows) = Cardinality(Replies(posts, resp.arg))
        /\ \A k \in 1..(Len(resp.rows) - 1) :
              Unwrap(resp.rows[k].reply_id) > Unwrap(resp.rows[k + 1].reply_id)

\* The extensions the accepted types are said to have.
ClaimedExtensions ==
    {"jpg", "jpeg", "png", "gif", "webp", "bmp", "webm", "mp4", "mp3"}

\* An upload that is to be accepted: it has a name, it is no larger than 20 MiB
\* and the lower-cased text after the last '.' of the name is a listed one.
ClaimedAccepted(upload) ==
    /\ IsSome(Unwrap(upload).name)
    /\ Unwrap(upload).len <= MaxFileLen
    /\ Extension(Unwrap(Unwrap(upload).name)) \in ClaimedExtensions

\* C11: submit goes on to store an attachment exactly when its size is at most
\* 20 MiB and its lower-cased extension is one of jpg, jpeg, png, gif, webp,
\* bmp, webm, mp4, mp3; every other attachment is dropped.
C11_AcceptedIffListed ==
    [][\A c \in Calls, d \in SampledDisplayIds, u \in UploadInputs \ {NoFile} :
          SubmitStart(c, "a", d, u, MaxUploadPosts) =>
              ((calls'[c].pc = "persist") <=> ClaimedAccepted(u))]_vars

\* C12: a submit whose attachment fails validation, or whose file cannot be
\* stored, goes on to its INSERT with no file_path, and that INSERT creates
\* exactly one root without a file_path: the thread is created all the same.
C12_RejectionKeepsThread ==
    [][\A c \in Calls :
          /\ \A d \in SampledDisplayIds, u \in UploadInputs \ {NoFile} :
                (SubmitStart(c, "a", d, u, MaxUploadPosts) /\ ~Accepted(u)) =>
                    (calls'[c].pc = "insert_root" /\ calls'[c].file_path = NULL)
          /\ \A dir_ok \in BOOLEAN, persist_ok \in BOOLEAN :
                (SubmitPersist(c, dir_ok, persist_ok) /\ ~(dir_ok /\ persist_ok)) =>
                    (calls'[c].pc = "insert_root" /\ calls'[c].file_path = NULL)
          /\ SubmitInsert(c) =>
                /\ Len(posts') = Len(posts) + 1
                /\ SubSeq(posts', 1, Len(posts)) = posts
                /\ IsRoot(posts'[Len(posts')])
                /\ posts'[Len(posts')].file_path = calls[c].file_path]_vars

\* C13: the file_path of a post, and the file_path a submit is about to
\* insert, is the path of a file that was stored in the upload directory: no
\* post refers to a file that was never written.
C13_PathsPersisted ==
    /\ \A i \in DOMAIN posts :
            IsSome(posts[i].file_path) => Unwrap(posts[i].file_path) \in files
    /\ \A c \in Calls :
            IsSome(calls[c].file_path) => Unwrap(calls[c].file_path) \in files

\* C13's case: a post that has a stored file and a post that has none, while
\* another submit has stored its file and is about to insert its path.
C13_Witness ==
    /\ \E i, j \in DOMAIN posts :
            /\ IsSome(posts[i].file_path)
            /\ posts[j].file_path = NULL
    /\ \E c \in Calls : calls[c].pc = "insert_root" /\ IsSome(calls[c].file_path)

\* What a step leaves of the posts there were: every post is still there, with
\* its id, content, parent_id, reply_id, display_id and file_path.
PostsKept ==
    /\ Len(posts') >= Len(posts)
    /\ \A i \in DOMAIN posts :
            [posts'[i] EXCEPT !.timestamp = posts[i].timestamp] = posts[i]

\* A timestamp changes only in the UPDATE of a submit_reply for that post.
OnlyBumpsWrite ==
    \A i \in DOMAIN posts :
        posts'[i].timestamp # posts[i].timestamp =>
            \E c \in Calls : ReplyUpdate(c) /\ calls[c].parent_id = i

\* C14: no step deletes a post or changes its id, content, parent_id, reply_id,
\* display_id or file_path; a timestamp is written only by the bump of a
\* submit_reply; and the timestamp of a reply never changes.
C14_OnlyRootTimestampChanges ==
    [][/\ PostsKept
       /\ OnlyBumpsWrite
       /\ \A i \in DOMAIN posts :
              posts[i].parent_id # NULL => posts'[i].timestamp = posts[i].timestamp]_vars

\* A display id as the claim has it: exactly 5 characters, each alphanumeric.
FiveAlphanumeric(did) ==
    /\ Len(did) = 5
    /\ \A k \in DOMAIN did : did[k] \in Alphanumeric

\* C15: the INSERT of a submit adds one post, a root: parent_id and reply_id
\* are NULL, the display_id is 5 alphanumeric characters, and the one timestamp
\* the post has is the clock value the handler read at its start.
C15_SubmitCreatesRoot ==
    [][\A c \in Calls : SubmitInsert(c) =>
          /\ Len(posts') = Len(posts) + 1
          /\ LET p == posts'[Len(posts')]
             IN  /\ p.parent_id = NULL
                 /\ p.reply_id = NULL
                 /\ IsSome(p.display_id)
                 /\ FiveAlphanumeric(Unwrap(p.display_id))
                 /\ p.timestamp = calls[c].timestamp]_vars

\* C15's case: submits have created roots, one before the clock moved and one
\* after, with different display ids.
C15_Witness ==
    \E i, j \in DOMAIN posts :
        /\ posts[i].timestamp = 0 /\ posts[j].timestamp = 1
        /\ IsRoot(posts[i]) /\ IsRoot(posts[j])
        /\ posts[i].display_id # posts[j].display_id

\* C16: the reply view of an id that no post has ends with a NotFound outcome
\* and returns no thread; a thread is returned only for the id of a post.
C16_UnknownIdIsNotFound ==
    resp.op = "reply" =>
        /\ resp.arg \notin DOMAIN posts =>
                (resp.status = "not_found" /\ resp.rows = <<>>)
        /\ resp.status = "ok" => resp.arg \in DOMAIN posts

\* Where a submit_reply is: before its INSERT it has inserted nothing, and at
\* its UPDATE the row it inserted is in the table.
InsertThenUpdate ==
    \A c \in Calls :
        /\ calls[c].pc \in {"select", "insert"} => calls[c].ins = 0
        /\ calls[c].pc = "update" =>
                /\ calls[c].ins \in DOMAIN posts
                /\ posts[calls[c].ins].parent_id = Some(calls[c].parent_id)
                /\ posts[calls[c].ins].reply_id = Some(calls[c].reply_id)

\* C17: in a submit_reply the INSERT comes before the UPDATE, and the two are
\* not one transaction: a call that stops between them leaves the table as it
\* is, the reply in it and the parent's timestamp not written.
C17_InsertBeforeUpdate ==
    /\ []InsertThenUpdate
    /\ [][\A c \in Calls :
            (Fail(c) /\ calls[c].pc = "update") =>
                (posts' = posts /\ calls[c].ins \in DOMAIN posts')]_vars

\* C17's case: a root and its one reply, nothing in flight, and the reply is
\* newer than the timestamp of the root: the call stopped before its UPDATE.
C17_Witness ==
    /\ AllIdle
    /\ Len(posts) = 2
    /\ IsRoot(posts[1])
    /\ posts[2].parent_id = Some(1)
    /\ posts[2].timestamp > posts[1].timestamp

\* The reply counts of a rendered index page are the numbers of posts whose
\* parent_id is the row's id.
CountIsNumberOfReplies ==
    (resp.op = "index" /\ resp.status = "ok") =>
        \A k \in DOMAIN resp.rows :
            resp.rows[k].reply_count =
                Cardinality({i \in DOMAIN posts :
                                posts[i].parent_id = Some(resp.rows[k].id)})

\* C18: the reply count index shows for a root is the number of posts with
\* that parent_id when the page is made, and with requests handled one at a
\* time it is also the largest reply_id under the root (0 when there is none).
C18_CountIsRepliesAndMax ==
    /\ CountIsNumberOfReplies
    /\ (resp.op = "index" /\ resp.status = "ok") =>
            \A k \in DOMAIN resp.rows :
                resp.rows[k].reply_count =
                    Max({Unwrap(posts[i].reply_id) :
                            i \in Replies(posts, resp.rows[k].id)}, 0)

\* C18's case: page 1 lists a root with two replies first, with count 2, and
\* after it a root with none.
C18_Witness ==
    /\ resp.op = "index" /\ resp.status = "ok" /\ resp.arg = 1
    /\ Len(resp.rows) >= 2
    /\ resp.rows[1].reply_count = 2
    /\ resp.rows[2].reply_count = 0

\* No step lowers the timestamp of a root.
RootTimestampsGrow ==
    \A r \in Roots(posts) : posts'[r].timestamp >= posts[r].timestamp

\* With nothing in flight, the timestamp of a root that has replies is the
\* largest timestamp among them.
BumpIsNewestReply ==
    AllIdle =>
        \A r \in Roots(posts) :
            Replies(posts, r) # {} =>
                posts[r].timestamp =
                    Max({posts[i].timestamp : i \in Replies(posts, r)}, 0)

\* C19: with a clock that never goes back, no interleaving of submit_reply
\* calls lowers the timestamp of a root, and once the calls in flight have
\* completed it is the largest timestamp among the root's replies.
C19_RootTimestampNeverDecreases ==
    [][RootTimestampsGrow]_vars /\ []BumpIsNewestReply

\* C20: no two posts record the same file_path: the files of two submits whose
\* attachments were stored are at different paths.
C20_PathsDistinct ==
    \A i, j \in DOMAIN posts :
        (i # j /\ IsSome(posts[i].file_path) /\ IsSome(posts[j].file_path)) =>
            posts[i].file_path # posts[j].file_path
====
